---- MODULE Spec2Model ----
(***************************************************************************)
(* Client-side response cache of FinancialTracker: DataCache (cache.js),   *)
(* its localStorage persistence, the window.cacheInvalidation router and   *)
(* the request wrapper AuthService.makeAuthenticatedRequest that reads and *)
(* fills the cache.                                                        *)
(*                                                                         *)
(* A JS Map is modelled as the sequence of its <<key, value>> entries in   *)
(* insertion order (the order Map iteration, Object.fromEntries and        *)
(* JSON.stringify observe).  localStorage is a function from the names of  *)
(* the items that exist to their text.  JSON text is a sequence of tokens. *)
(* Times are epoch milliseconds.                                           *)
(***************************************************************************)
EXTENDS Integers, Sequences, FiniteSets, TLC

(***************************************************************************)
(* Bounds of the model.                                                    *)
(***************************************************************************)
\* the clock advances in steps of one minute, at most MaxTicks times
MaxTicks == 2
\* at most MaxFailures saves fail in one run
MaxFailures == 1
\* at most MaxPending requests wait for the network at a time
MaxPending == 2
\* the server applies at most MaxWrites writes in one run
MaxWrites == 1

(***************************************************************************)
(* Program constants.                                                      *)
(***************************************************************************)
Minute == 60 * 1000
\* this.defaultTTL
defaultTTL == 5 * 60 * 1000
\* this.maxCacheSize is 50 in the source; the model runs the same code with
\* a capacity of 2 so that a full store is reachable within the bounds
maxCacheSize == 2
storageKey == "financial_tracker_cache"
timestampsKey == "financial_tracker_timestamps"
\* this.cacheConfig, in declaration order (the order Object.entries yields)
cacheConfig ==
  << <<"/api/accounts", 10 * 60 * 1000>>,
     <<"/api/financial-summary", 5 * 60 * 1000>>,
     <<"/api/transactions/recent", 2 * 60 * 1000>>,
     <<"/api/accounts/summary/", 5 * 60 * 1000>>,
     <<"/api/analytics/monthly-summary", 30 * 60 * 1000>>,
     <<"/api/analytics/balance-history", 15 * 60 * 1000>>,
     <<"/api/analytics/account-balance", 15 * 60 * 1000>>,
     <<"/api/transactions/search", 1 * 60 * 1000>> >>

\* JS null as the value of the optional ttl parameter (no duration is negative)
null == -1
\* JS null as a key (evictOldest's oldestKey)
NoKey == ""
\* JS null as the result of get.  A cached response is [body, setExpiry]:
\* body stands for the response snapshot, and setExpiry is a history tag, the
\* expiresAt that the set which stored the response computed for it.  The
\* program never reads the tag.  The entries that the request wrapper stores
\* carry ok, status and statusText as well.
absent == [body |-> "<null>", setExpiry |-> -1]

(***************************************************************************)
(* JS Map, as a sequence of <<key, value>> entries without duplicate keys. *)
(***************************************************************************)
EmptyMap == << >>
MapKeys(m) == { m[i][1] : i \in 1..Len(m) }
MapHas(m, key) == key \in MapKeys(m)
MapSize(m) == Len(m)
MapIndex(m, key) == CHOOSE i \in 1..Len(m) : m[i][1] = key
MapGet(m, key) == m[MapIndex(m, key)][2]
\* Map.prototype.set: an existing key keeps its position
MapSet(m, key, value) ==
  IF MapHas(m, key)
    THEN [m EXCEPT ![MapIndex(m, key)] = <<key, value>>]
    ELSE Append(m, <<key, value>>)
MapDelete(m, key) == SelectSeq(m, LAMBDA e : e[1] # key)

\* String.prototype.includes
includesScan(s, p) ==
  \E i \in 0..(Len(s) - Len(p)) : SubSeq(s, i + 1, i + Len(p)) = p

(***************************************************************************)
(* Cache keys and patterns the model uses.                                 *)
(***************************************************************************)
\* API_CONFIG.getBaseUrl()
BaseUrl == "/api"
\* cacheKey of makeAuthenticatedRequest
CacheKey(method, url) == method \o "_" \o url
AccountIds == {"a1", "a12"}
KeyAccounts == CacheKey("GET", BaseUrl \o "/accounts")
KeySummary == CacheKey("GET", BaseUrl \o "/financial-summary")
KeyRecent == CacheKey("GET", BaseUrl \o "/transactions/recent")
KeyMonthly == CacheKey("GET", BaseUrl \o "/analytics/monthly-summary?months=12")
KeySearch == CacheKey("GET", BaseUrl \o "/transactions/search?q=rent")
KeySearchFood == CacheKey("GET", BaseUrl \o "/transactions/search?q=food")
KeyRecurring == CacheKey("GET", BaseUrl \o "/recurring-transactions")
KeyAccountSummary(id) == CacheKey("GET", BaseUrl \o "/accounts/summary/" \o id)

\* two keys for the store as a whole, three for a store of capacity two
CoreKeys == {KeySearch, KeySearchFood}
EvictKeys == {KeySearch, KeyRecent, KeyAccounts}
RouterKeys ==
  {KeyAccounts, KeySummary, KeyRecent, KeyMonthly, KeyRecurring}
    \cup { KeyAccountSummary(id) : id \in AccountIds }
AllKeys == CoreKeys \cup EvictKeys \cup RouterKeys
\* every pattern the program passes to includes
AllPatterns ==
  { cacheConfig[i][1] : i \in 1..Len(cacheConfig) }
    \cup {"/api/accounts", "/api/financial-summary", "/api/transactions",
          "/api/analytics", "q=rent", "/summary/a1", "GET_", "POST_"}
    \cup { "/api/accounts/summary/" \o id : id \in AccountIds }

\* includes, with the scan of the keys and patterns above done once
IncludesMemo == [k \in AllKeys |-> [q \in AllPatterns |-> includesScan(k, q)]]
includes(s, p) ==
  IF s \in AllKeys /\ p \in AllPatterns THEN IncludesMemo[s][p]
  ELSE includesScan(s, p)

(***************************************************************************)
(* JSON.stringify(Object.fromEntries(map)) and                             *)
(* new Map(Object.entries(JSON.parse(text))).  The text of an object is    *)
(* "{", then key and value of every member in order, then "}".             *)
(***************************************************************************)
RECURSIVE Members(_)
Members(m) ==
  IF m = << >> THEN << >> ELSE <<m[1][1], m[1][2]>> \o Members(Tail(m))
stringify(m) == <<"{">> \o Members(m) \o <<"}">>
WellFormed(text) ==
  /\ Len(text) >= 2
  /\ (Len(text) - 2) % 2 = 0
  /\ text[1] = "{"
  /\ text[Len(text)] = "}"
parse(text) ==
  [i \in 1..((Len(text) - 2) \div 2) |-> <<text[2 * i], text[2 * i + 1]>>]

(***************************************************************************)
(* localStorage                                                            *)
(***************************************************************************)
NoStorage == [n \in {} |-> << >>]
hasItem(ls, name) == name \in DOMAIN ls
setItem(ls, name, text) ==
  [n \in (DOMAIN ls) \cup {name} |-> IF n = name THEN text ELSE ls[n]]
removeItem(ls, name) == [n \in (DOMAIN ls) \ {name} |-> ls[n]]

(***************************************************************************)
(* DataCache.  A store S is [cache, ts, ls]: this.cache,                   *)
(* this.cacheTimestamps and the localStorage it persists to.               *)
(***************************************************************************)
\* outcome of the two setItem calls of one saveToStorage: both succeed, the
\* first throws (nothing is written), or the second throws (only the entry
\* slot is written)
SaveOutcomes == {"ok", "first", "second"}

\* saveToStorage whose successful save writes the entry slot only
saveToStorageEntriesOnly(S, fail) ==
  IF fail = "first" THEN S
  ELSE [S EXCEPT !.ls = setItem(S.ls, storageKey, stringify(S.cache))]

saveToStorage(S, fail) ==
  CASE fail = "ok" ->
         [S EXCEPT !.ls = setItem(setItem(S.ls, storageKey, stringify(S.cache)),
                                  timestampsKey, stringify(S.ts))]
    [] fail = "first" -> S
    [] fail = "second" ->
         [S EXCEPT !.ls = setItem(S.ls, storageKey, stringify(S.cache))]

RECURSIVE getTTLFrom(_, _)
getTTLFrom(url, i) ==
  IF i > Len(cacheConfig) THEN defaultTTL
  ELSE IF includes(url, cacheConfig[i][1]) THEN cacheConfig[i][2]
  ELSE getTTLFrom(url, i + 1)
\* getTTL in which the last matching pattern wins
getTTLLast(url) ==
  LET hits == { i \in 1..Len(cacheConfig) : includes(url, cacheConfig[i][1]) }
  IN IF hits = {} THEN defaultTTL
     ELSE cacheConfig[CHOOSE i \in hits : \A j \in hits : j <= i][2]

\* getTTL, with the scan for the keys above done once
TTLMemo == [k \in AllKeys |-> getTTLFrom(k, 1)]
getTTL(url) == IF url \in AllKeys THEN TTLMemo[url] ELSE getTTLFrom(url, 1)

\* cleanupExpired that sweeps nothing
cleanupNothing(S, now) == S

ExpiredKeys(ts, now) == { ts[i][1] : i \in { j \in 1..Len(ts) : now > ts[j][2] } }
cleanupExpired(S, now) ==
  LET keysToDelete == ExpiredKeys(S.ts, now)
  IN [S EXCEPT !.cache = SelectSeq(@, LAMBDA e : e[1] \notin keysToDelete),
               !.ts = SelectSeq(@, LAMBDA e : e[1] \notin keysToDelete)]

\* S.cache and S.ts are the empty maps of the constructor when called; fail
\* other than "ok" is a getItem call that throws, which the catch turns into an
\* empty store
loadFromStorage(S, now, fail) ==
  LET hasCache == hasItem(S.ls, storageKey) /\ Len(S.ls[storageKey]) > 0
      hasTs == hasItem(S.ls, timestampsKey) /\ Len(S.ls[timestampsKey]) > 0
      throws == \/ hasCache /\ ~WellFormed(S.ls[storageKey])
                \/ hasTs /\ ~WellFormed(S.ls[timestampsKey])
      S1 == IF hasCache THEN [S EXCEPT !.cache = parse(S.ls[storageKey])] ELSE S
      S2 == IF hasTs THEN [S1 EXCEPT !.ts = parse(S.ls[timestampsKey])] ELSE S1
  IN IF fail # "ok" \/ throws
       THEN [S EXCEPT !.cache = EmptyMap, !.ts = EmptyMap]
       ELSE cleanupExpired(S2, now)

\* evictScan with the comparison reversed
RECURSIVE evictScanLatest(_, _, _, _)
evictScanLatest(ts, i, oldestKey, oldestTime) ==
  IF i > Len(ts) THEN oldestKey
  ELSE IF ts[i][2] > oldestTime
         THEN evictScanLatest(ts, i + 1, ts[i][1], ts[i][2])
         ELSE evictScanLatest(ts, i + 1, oldestKey, oldestTime)

\* the loop of evictOldest over this.cacheTimestamps.entries()
RECURSIVE evictScan(_, _, _, _)
evictScan(ts, i, oldestKey, oldestTime) ==
  IF i > Len(ts) THEN oldestKey
  ELSE IF ts[i][2] < oldestTime
         THEN evictScan(ts, i + 1, ts[i][1], ts[i][2])
         ELSE evictScan(ts, i + 1, oldestKey, oldestTime)

evictOldest(S, now) ==
  IF MapSize(S.cache) = 0 THEN S
  ELSE LET oldestKey == evictScan(S.ts, 1, NoKey, now)
       IN IF oldestKey # NoKey
            THEN [S EXCEPT !.cache = MapDelete(@, oldestKey),
                           !.ts = MapDelete(@, oldestKey)]
            ELSE S

\* ttl || this.getTTL(key)
actualTTL(key, ttl) == IF ttl # null /\ ttl # 0 THEN ttl ELSE getTTL(key)

\* set that makes room whenever the store is full
setEvictAlways(S, key, data, ttl, now, fail) ==
  LET S1 == IF MapSize(S.cache) >= maxCacheSize THEN evictOldest(S, now) ELSE S
      S2 == [S1 EXCEPT !.cache = MapSet(@, key, data),
                       !.ts = MapSet(@, key, now + actualTTL(key, ttl))]
  IN saveToStorage(S2, fail)

set(S, key, data, ttl, now, fail) ==
  LET S1 == IF MapSize(S.cache) >= maxCacheSize /\ ~MapHas(S.cache, key)
              THEN evictOldest(S, now) ELSE S
      S2 == [S1 EXCEPT !.cache = MapSet(@, key, data),
                       !.ts = MapSet(@, key, now + actualTTL(key, ttl))]
  IN saveToStorage(S2, fail)

\* get that takes an entry to be expired from its expiry time on
getEarly(S, key, now) ==
  IF ~MapHas(S.cache, key) THEN [S |-> S, result |-> absent]
  ELSE IF MapHas(S.ts, key) /\ now >= MapGet(S.ts, key)
    THEN [S |-> [S EXCEPT !.cache = MapDelete(@, key), !.ts = MapDelete(@, key)],
          result |-> absent]
    ELSE [S |-> S, result |-> MapGet(S.cache, key)]

\* a key without a timestamp has expiry undefined, and now > undefined is false
get(S, key, now) ==
  IF ~MapHas(S.cache, key) THEN [S |-> S, result |-> absent]
  ELSE IF MapHas(S.ts, key) /\ now > MapGet(S.ts, key)
    THEN [S |-> [S EXCEPT !.cache = MapDelete(@, key), !.ts = MapDelete(@, key)],
          result |-> absent]
    ELSE [S |-> S, result |-> MapGet(S.cache, key)]

\* invalidate that matches the pattern at the end of the key only
invalidateSuffix(S, pattern, fail) ==
  LET keysToDelete ==
        { k \in MapKeys(S.cache) :
            /\ Len(k) >= Len(pattern)
            /\ SubSeq(k, Len(k) - Len(pattern) + 1, Len(k)) = pattern }
      S1 == [S EXCEPT !.cache = SelectSeq(@, LAMBDA e : e[1] \notin keysToDelete),
                      !.ts = SelectSeq(@, LAMBDA e : e[1] \notin keysToDelete)]
  IN IF keysToDelete # {} THEN saveToStorage(S1, fail) ELSE S1

\* invalidate that saves whether or not it removed an entry
invalidateAlwaysSaves(S, pattern, fail) ==
  LET keysToDelete == { k \in MapKeys(S.cache) : includes(k, pattern) }
      S1 == [S EXCEPT !.cache = SelectSeq(@, LAMBDA e : e[1] \notin keysToDelete),
                      !.ts = SelectSeq(@, LAMBDA e : e[1] \notin keysToDelete)]
  IN saveToStorage(S1, fail)

invalidate(S, pattern, fail) ==
  LET keysToDelete == { k \in MapKeys(S.cache) : includes(k, pattern) }
      S1 == [S EXCEPT !.cache = SelectSeq(@, LAMBDA e : e[1] \notin keysToDelete),
                      !.ts = SelectSeq(@, LAMBDA e : e[1] \notin keysToDelete)]
  IN IF keysToDelete # {} THEN saveToStorage(S1, fail) ELSE S1

\* clear that empties the maps and leaves the durable slots
clearMemoryOnly(S, fail) == [S EXCEPT !.cache = EmptyMap, !.ts = EmptyMap]

\* fail is the outcome of the two removeItem calls: both succeed, the first
\* throws, or the second throws; the maps are emptied before either call
clear(S, fail) ==
  LET S1 == [S EXCEPT !.cache = EmptyMap, !.ts = EmptyMap]
  IN CASE fail = "ok" ->
            [S1 EXCEPT !.ls = removeItem(removeItem(S.ls, storageKey), timestampsKey)]
       [] fail = "first" -> S1
       [] fail = "second" -> [S1 EXCEPT !.ls = removeItem(S.ls, storageKey)]
\* the removeItem calls of clear are outside any try: a call that throws
\* raises to the caller of clear
clearRaises(fail) == fail # "ok"

getStats(S) == [size |-> MapSize(S.cache), keys |-> MapKeys(S.cache)]

\* handleSignOut that empties the maps of the store and nothing else
handleSignOutMemoryOnly(S, fail) == [S EXCEPT !.cache = EmptyMap, !.ts = EmptyMap]

\* handleSignOut: window.dataCache.clear(), then localStorage.clear(); when a
\* removeItem call of clear throws, the exception leaves handleSignOut before
\* localStorage.clear() and the redirect
handleSignOut(S, fail) ==
  IF clearRaises(fail) THEN clear(S, fail)
  ELSE [clear(S, fail) EXCEPT !.ls = NoStorage]

(***************************************************************************)
(* AuthService.makeAuthenticatedRequest.  The call runs up to its first    *)
(* await (the cache lookup, and on a miss getToken and the start of fetch) *)
(* and, on a miss, resumes when the network answers.  A response is        *)
(* [ok, status, statusText, data]; headers are left out.                   *)
(***************************************************************************)
NoResponse == [ok |-> FALSE, status |-> 0, statusText |-> "", data |-> "<none>"]

\* the object the wrapper returns on a cache hit
cachedResponse(cached) ==
  [ok |-> cached.ok, status |-> cached.status, statusText |-> cached.statusText,
   data |-> cached.body]

\* the wrapper without its cache lookup
requestStartNoCache(S, method, url, now) ==
  [S |-> S, hit |-> FALSE, response |-> NoResponse]

\* the part before the try: window.dataCache.get for a GET, and the return of
\* the cached response when get gives one
requestStart(S, method, url, now) ==
  LET cacheKey == CacheKey(method, url)
      r == IF method = "GET" THEN get(S, cacheKey, now)
           ELSE [S |-> S, result |-> absent]
  IN IF r.result # absent
       THEN [S |-> r.S, hit |-> TRUE, response |-> cachedResponse(r.result)]
       ELSE [S |-> r.S, hit |-> FALSE, response |-> NoResponse]

\* what the network part of a request comes to: an ok JSON response, an ok
\* response whose body is not JSON, a response that is not ok, or fetch throws
FetchOutcomes == {"ok", "notJson", "notOk", "throws"}

\* the object the wrapper stores for an ok JSON response; setExpiry is the
\* history tag of the model
cachedEntry(response, cacheKey, now) ==
  [body |-> response.data, setExpiry |-> now + getTTL(cacheKey),
   ok |-> response.ok, status |-> response.status,
   statusText |-> response.statusText]

\* the wrapper storing the response of every request, whatever its method and
\* outcome
requestEndAny(S, method, url, response, outcome, now, fail) ==
  set(S, CacheKey(method, url),
      cachedEntry(response, CacheKey(method, url), now), null, now, fail)

\* the part after fetch: an ok JSON response to a GET is stored without ttl
requestEnd(S, method, url, response, outcome, now, fail) ==
  IF method = "GET" /\ outcome = "ok"
    THEN set(S, CacheKey(method, url),
             cachedEntry(response, CacheKey(method, url), now), null, now, fail)
    ELSE S

(***************************************************************************)
(* window.cacheInvalidation.  f is the sequence of the outcomes of the     *)
(* saves of the successive invalidate calls.                               *)
(***************************************************************************)
\* the methods the object literal defines
cacheInvalidation ==
  {"invalidateUserData", "invalidateAccountData", "invalidateTransactionData"}

\* successive invalidate calls, one per pattern
RECURSIVE invalidateSeq(_, _, _)
invalidateSeq(S, patterns, f) ==
  IF patterns = << >> THEN S
  ELSE invalidateSeq(invalidate(S, Head(patterns), Head(f)), Tail(patterns), Tail(f))

\* invalidateUserData without the analytics reads
invalidateUserDataNoAnalytics(S, f) ==
  invalidateSeq(S, <<"/api/accounts", "/api/financial-summary",
                     "/api/transactions">>, f)

invalidateUserData(S, f) ==
  invalidateSeq(S, <<"/api/accounts", "/api/financial-summary",
                     "/api/transactions", "/api/analytics">>, f)

\* invalidateAccountData that also clears the transaction reads
invalidateAccountDataWide(S, accountId, f) ==
  invalidateSeq(S, <<"/api/accounts/summary/" \o accountId, "/api/accounts",
                     "/api/transactions">>, f)

invalidateAccountData(S, accountId, f) ==
  invalidateSeq(S, <<"/api/accounts/summary/" \o accountId, "/api/accounts",
                     "/api/financial-summary">>, f)

\* invalidateTransactionData that also clears the account reads
invalidateTransactionDataWide(S, f) ==
  invalidateSeq(S, <<"/api/transactions", "/api/accounts", "/api/analytics">>, f)

invalidateTransactionData(S, f) ==
  invalidateSeq(S, <<"/api/transactions", "/api/financial-summary",
                     "/api/analytics">>, f)

\* the saves that one of the operations above attempts and that fail, and
\* whether it names a failure for a call that saves nothing
RECURSIVE FailedSaves(_, _, _)
FailedSaves(S, patterns, f) ==
  IF patterns = << >> THEN 0
  ELSE LET S1 == invalidate(S, Head(patterns), Head(f))
       IN (IF S1.cache # S.cache /\ Head(f) # "ok" THEN 1 ELSE 0)
            + FailedSaves(S1, Tail(patterns), Tail(f))
RECURSIVE IdleFailure(_, _, _)
IdleFailure(S, patterns, f) ==
  IF patterns = << >> THEN FALSE
  ELSE LET S1 == invalidate(S, Head(patterns), Head(f))
       IN \/ S1.cache = S.cache /\ Head(f) # "ok"
          \/ IdleFailure(S1, Tail(patterns), Tail(f))

(***************************************************************************)
(* Inputs.                                                                 *)
(***************************************************************************)
\* the requests the pages make in the model: two reads and one write
UrlSearch == BaseUrl \o "/transactions/search?q=rent"
UrlSearchFood == BaseUrl \o "/transactions/search?q=food"
UrlTransactions == BaseUrl \o "/transactions"
Requests ==
  { [method |-> "GET", url |-> UrlSearch],
    [method |-> "GET", url |-> UrlSearchFood],
    [method |-> "POST", url |-> UrlTransactions] }
\* the response the server gives for the URL of key
BodyOf(key) == IF key = KeySearchFood THEN "v2" ELSE "v1"
TTLs == {null, 0, Minute}
Patterns == {"/api/transactions", "q=rent"}
\* the ttl of every set of the store of capacity two
EvictTTL == Minute \div 2
\* what the server answers to a request, by the outcome of the network part
ServerResponse(req, outcome) ==
  CASE outcome = "ok" ->
         [ok |-> TRUE, status |-> IF req.method = "POST" THEN 201 ELSE 200,
          statusText |-> IF req.method = "POST" THEN "Created" ELSE "OK",
          data |-> BodyOf(CacheKey(req.method, req.url))]
    [] outcome = "notJson" ->
         [ok |-> TRUE, status |-> 204, statusText |-> "No Content", data |-> ""]
    [] outcome = "notOk" ->
         [ok |-> FALSE, status |-> 500, statusText |-> "Internal Server Error",
          data |-> "error"]
    [] outcome = "throws" -> NoResponse

(***************************************************************************)
(* State.                                                                  *)
(***************************************************************************)
VARIABLES
  cache,            \* window.dataCache.cache
  cacheTimestamps,  \* window.dataCache.cacheTimestamps
  localStorage,     \* the two durable slots
  now,              \* Date.now()
  lastOp,           \* the last operation, its argument, what it returned and
                    \* the keys it removed from this.cache
  live,             \* history: key -> the body that the last set of key
                    \* stored in this store object and the end of its
                    \* lifetime, now + T for set(k, v, T) with T > 0 and now +
                    \* the configured TTL of k for set(k, v); absent once the
                    \* key is removed by invalidate, clear or eviction
  failures,         \* number of saves that failed so far
  saved,            \* history: key -> the response stored by a set whose save
                    \* succeeded, absent once the key is set again or removed
                    \* by invalidate, clear, eviction or a load that could not
                    \* read localStorage and so started from an empty store
  pending,          \* the requests of makeAuthenticatedRequest that wait for
                    \* the network: request -> how many of them
  net,              \* what the last operation did on the network and the
                    \* response it returned to the page
  user,             \* who is signed in, NoUser when nobody is
  flow,             \* the handler of a write that the page is running and the
                    \* await it has reached
  server            \* the number of writes the server has applied: the version
                    \* of the data it answers a read with

vars ==
  <<cache, cacheTimestamps, localStorage, now, lastOp, live, failures, saved,
    pending, net, user, flow, server>>

Store == [cache |-> cache, ts |-> cacheTimestamps, ls |-> localStorage]

Op(op, key, result, removed, raised) ==
  [op |-> op, key |-> key, result |-> result, removed |-> removed,
   raised |-> raised]

Becomes(S) ==
  /\ cache' = S.cache
  /\ cacheTimestamps' = S.ts
  /\ localStorage' = S.ls

\* a save with outcome fail is within the failure budget
Fails(fail) ==
  IF fail = "ok" THEN UNCHANGED failures
  ELSE failures < MaxFailures /\ failures' = failures + 1

Forget(h, keys) == [k \in DOMAIN h |-> IF k \in keys THEN absent ELSE h[k]]
NoHistory == [k \in AllKeys |-> absent]

NoPending == [req \in Requests |-> 0]
NoUser == "none"
\* no handler of a write has run on this page.  A handler is [kind, pc,
\* invalidated, seen]: which handler, the await it has reached ("idle" once it
\* has returned), whether it has called the invalidation router, and the
\* version that the server read for the reload it waits for
NoFlow == [kind |-> "none", pc |-> "idle", invalidated |-> FALSE, seen |-> 0]
\* an operation that makes no network call and returns no response
Idle == [calls |-> {}, response |-> NoResponse]
\* the session, the running handler and the server are as they were
SamePage == UNCHANGED <<user, flow, server>>
Offline ==
  /\ net' = Idle
  /\ UNCHANGED pending
  /\ SamePage

Init ==
  /\ cache = EmptyMap
  /\ cacheTimestamps = EmptyMap
  /\ localStorage = NoStorage
  /\ now = 0
  /\ lastOp = Op("new", NoKey, absent, {}, FALSE)
  /\ live = NoHistory
  /\ saved = NoHistory
  /\ failures = 0
  /\ pending = NoPending
  /\ net = Idle
  /\ user = "u1"
  /\ flow = NoFlow
  /\ server = 0

(***************************************************************************)
(* Operations.                                                             *)
(***************************************************************************)
Set(key, ttl, fail) ==
  LET body == BodyOf(key)
      data == [body |-> body, setExpiry |-> now + actualTTL(key, ttl)]
  IN \E S \in {set(Store, key, data, ttl, now, fail)} :
     \E removed \in {MapKeys(cache) \ MapKeys(S.cache)} :
     /\ Fails(fail)
     /\ Becomes(S)
     /\ lastOp' = Op("set", key, absent, removed, FALSE)
     /\ live' = [Forget(live, removed) EXCEPT
                   ![key] = [body |-> body,
                             setExpiry |-> now + (IF ttl > 0 THEN ttl ELSE getTTL(key))]]
     /\ saved' = [Forget(saved, removed) EXCEPT
                    ![key] = IF fail = "ok" THEN data ELSE absent]
     /\ UNCHANGED now
     /\ Offline

Get(key) ==
  \E r \in {get(Store, key, now)} :
     /\ Becomes(r.S)
     /\ lastOp' = Op("get", key, r.result, MapKeys(cache) \ MapKeys(r.S.cache), FALSE)
     /\ UNCHANGED <<now, live, saved, failures>>
     /\ Offline

Invalidate(pattern, fail) ==
  \E S \in {invalidate(Store, pattern, fail)} :
  \E removed \in {MapKeys(cache) \ MapKeys(S.cache)} :
     /\ IF removed # {} THEN Fails(fail) ELSE fail = "ok" /\ UNCHANGED failures
     /\ Becomes(S)
     /\ lastOp' = Op("invalidate", pattern, absent, removed, FALSE)
     /\ live' = Forget(live, removed)
     /\ saved' = Forget(saved, removed)
     /\ UNCHANGED now
     /\ Offline

Clear(fail) ==
  /\ Fails(fail)
  /\ \E S \in {clear(Store, fail)} : Becomes(S)
  /\ lastOp' = Op("clear", NoKey, absent, MapKeys(cache), clearRaises(fail))
  /\ live' = NoHistory
  /\ saved' = NoHistory
  /\ UNCHANGED now
  /\ Offline

\* a page load: new DataCache() over the same localStorage; the key of the
\* operation tells whether localStorage could be read
Load(fail) ==
  \E S \in {loadFromStorage([cache |-> EmptyMap, ts |-> EmptyMap,
                               ls |-> localStorage], now, fail)} :
     /\ Fails(fail)
     /\ Becomes(S)
     /\ lastOp' = Op("load", IF fail = "ok" THEN NoKey ELSE "unreadable", absent, {}, FALSE)
     /\ live' = NoHistory
     /\ saved' = IF fail = "ok" THEN saved ELSE NoHistory
     /\ UNCHANGED now
     /\ Offline

Tick ==
  /\ now + Minute <= MaxTicks * Minute
  /\ now' = now + Minute
  /\ lastOp' = Op("tick", NoKey, absent, {}, FALSE)
  /\ UNCHANGED <<cache, cacheTimestamps, localStorage, live, saved, failures,
                 pending, net>>
  /\ SamePage

\* one of the named router operations: f gives the outcome of each save
Router(op, arg, patterns, S, f) ==
  \* every failure that f names is the failure of a save the operation makes
  /\ failures + Cardinality({ i \in DOMAIN f : f[i] # "ok" }) <= MaxFailures
  /\ ~IdleFailure(Store, patterns, f)
  /\ \E failed \in {FailedSaves(Store, patterns, f)} :
     \E T \in {S} :
     \E removed \in {MapKeys(cache) \ MapKeys(T.cache)} :
     /\ failures + failed <= MaxFailures
     /\ failures' = failures + failed
     /\ Becomes(T)
     /\ lastOp' = Op(op, arg, absent, removed, FALSE)
     /\ live' = Forget(live, removed)
     /\ saved' = Forget(saved, removed)
     /\ UNCHANGED now
     /\ Offline

InvalidateUserData(f) ==
  Router("invalidateUserData", NoKey,
         <<"/api/accounts", "/api/financial-summary", "/api/transactions",
           "/api/analytics">>,
         invalidateUserData(Store, f), f)

InvalidateAccountData(accountId, f) ==
  Router("invalidateAccountData", accountId,
         <<"/api/accounts/summary/" \o accountId, "/api/accounts",
           "/api/financial-summary">>,
         invalidateAccountData(Store, accountId, f), f)

InvalidateTransactionData(f) ==
  Router("invalidateTransactionData", NoKey,
         <<"/api/transactions", "/api/financial-summary", "/api/analytics">>,
         invalidateTransactionData(Store, f), f)

\* refreshRecurringTransactions: window.cacheInvalidation exists, so the page
\* calls its invalidateRecurringTransactions; calling a property that the
\* object does not define raises a TypeError before anything else runs
RefreshRecurringTransactions ==
  /\ "invalidateRecurringTransactions" \notin cacheInvalidation
  /\ lastOp' = Op("invalidateRecurringTransactions", NoKey, absent, {}, TRUE)
  /\ UNCHANGED <<cache, cacheTimestamps, localStorage, now, live, failures, saved>>
  /\ Offline

Ops(keys, ttls, patterns, outcomes) ==
  \/ \E key \in keys, ttl \in ttls, fail \in outcomes : Set(key, ttl, fail)
  \/ \E key \in keys : Get(key)
  \/ \E pattern \in patterns, fail \in outcomes : Invalidate(pattern, fail)
  \/ \E fail \in outcomes : Clear(fail)
  \/ \E fail \in outcomes : Load(fail)
  \/ Tick

\* the store over two keys
Next == Ops(CoreKeys, TTLs, Patterns, SaveOutcomes)
Spec == Init /\ [][Next]_vars

\* the store over more keys than its capacity, when every save succeeds; a
\* ttl of half a minute lets two entries with different expiries both be
\* expired at the same time
NextEvict == Ops(EvictKeys, {EvictTTL}, {"/api/transactions"}, {"ok"})
SpecEvict == Init /\ [][NextEvict]_vars

(***************************************************************************)
(* The request wrapper over the store: requests start, and the network     *)
(* answers those that wait, in any order.                                  *)
(***************************************************************************)
RECURSIVE Sum(_, _)
Sum(f, D) ==
  IF D = {} THEN 0
  ELSE LET d == CHOOSE d \in D : TRUE IN f[d] + Sum(f, D \ {d})
InFlight == Sum(pending, Requests)

\* makeAuthenticatedRequest up to its first await; tokenOk tells whether
\* getToken finds a signed-in user
Request(req, tokenOk) ==
  LET cacheKey == CacheKey(req.method, req.url)
  IN \E r \in {requestStart(Store, req.method, req.url, now)} :
     \E removed \in {MapKeys(cache) \ MapKeys(r.S.cache)} :
     /\ Becomes(r.S)
     /\ UNCHANGED <<now, live, saved, failures>>
     /\ SamePage
     /\ IF r.hit
          THEN /\ tokenOk
               /\ lastOp' = Op("request", cacheKey, absent, removed, FALSE)
               /\ net' = [calls |-> {}, response |-> r.response]
               /\ UNCHANGED pending
          ELSE IF ~tokenOk
          THEN /\ lastOp' = Op("request", cacheKey, absent, removed, TRUE)
               /\ net' = [calls |-> {"getToken"}, response |-> NoResponse]
               /\ UNCHANGED pending
          ELSE /\ InFlight < MaxPending
               /\ lastOp' = Op("request", cacheKey, absent, removed, FALSE)
               /\ net' = [calls |-> {"getToken", "fetch"}, response |-> NoResponse]
               /\ pending' = [pending EXCEPT ![req] = @ + 1]

\* the network answers a waiting request and makeAuthenticatedRequest runs to
\* its end
Respond(req, outcome, fail) ==
  LET response == ServerResponse(req, outcome)
      cacheKey == CacheKey(req.method, req.url)
      stores == req.method = "GET" /\ outcome = "ok"
  IN \E S \in {requestEnd(Store, req.method, req.url, response, outcome, now, fail)} :
     \E removed \in {MapKeys(cache) \ MapKeys(S.cache)} :
     /\ pending[req] > 0
     /\ pending' = [pending EXCEPT ![req] = @ - 1]
     /\ IF stores THEN Fails(fail) ELSE fail = "ok" /\ UNCHANGED failures
     /\ Becomes(S)
     /\ lastOp' = Op("response", cacheKey, absent, removed, outcome = "throws")
     /\ net' = [calls |-> {}, response |-> response]
     /\ live' = IF stores
                 THEN [Forget(live, removed) EXCEPT
                         ![cacheKey] = [body |-> response.data,
                                        setExpiry |-> now + getTTL(cacheKey)]]
                 ELSE live
     /\ saved' = IF stores
                  THEN [Forget(saved, removed) EXCEPT
                          ![cacheKey] = IF fail = "ok"
                                          THEN cachedEntry(response, cacheKey, now)
                                          ELSE absent]
                  ELSE saved
     /\ UNCHANGED now
     /\ SamePage

NextRequest ==
  \/ \E req \in Requests, tokenOk \in BOOLEAN : Request(req, tokenOk)
  \/ \E req \in Requests, outcome \in FetchOutcomes : Respond(req, outcome, "ok")
  \/ \E pattern \in Patterns : Invalidate(pattern, "ok")
  \/ Tick

SpecRequest == Init /\ [][NextRequest]_vars

(***************************************************************************)
(* The invalidation router, over stores that hold any of the reads the     *)
(* pages cache.  A store of InitRouter is the one that set, called without *)
(* ttl at time 0 for each of its keys in the order of RouterKeySeq, leaves *)
(* when every save succeeds (nothing has expired, so nothing is evicted).  *)
(***************************************************************************)
RouterKeySeq ==
  <<KeyAccounts, KeySummary, KeyRecent, KeyMonthly, KeyRecurring,
    KeyAccountSummary("a1"), KeyAccountSummary("a12")>>
RouterPatterns == {"/api/transactions", "/summary/a1", "GET_", "POST_"}

RECURSIVE SetAll(_, _)
SetAll(S, keys) ==
  IF keys = << >> THEN S
  ELSE SetAll(set(S, Head(keys),
                  [body |-> BodyOf(Head(keys)), setExpiry |-> getTTL(Head(keys))],
                  null, 0, "ok"),
              Tail(keys))

InitRouter ==
  \E K \in SUBSET RouterKeys :
    LET S == SetAll([cache |-> EmptyMap, ts |-> EmptyMap, ls |-> NoStorage],
                    SelectSeq(RouterKeySeq, LAMBDA k : k \in K))
    IN /\ cache = S.cache
       /\ cacheTimestamps = S.ts
       /\ localStorage = S.ls
       /\ now = 0
       /\ lastOp = Op("new", NoKey, absent, {}, FALSE)
       /\ live = NoHistory
       /\ saved = [k \in AllKeys |-> IF MapHas(S.cache, k) THEN MapGet(S.cache, k)
                                     ELSE absent]
       /\ failures = 0
       /\ pending = NoPending
       /\ net = Idle
       /\ user = "u1"
       /\ flow = NoFlow
       /\ server = 0

NextRouter ==
  \/ \E pattern \in RouterPatterns, fail \in SaveOutcomes : Invalidate(pattern, fail)
  \/ \E f \in [1..4 -> SaveOutcomes] : InvalidateUserData(f)
  \/ \E accountId \in AccountIds, f \in [1..3 -> SaveOutcomes] :
       InvalidateAccountData(accountId, f)
  \/ \E f \in [1..3 -> SaveOutcomes] : InvalidateTransactionData(f)
  \/ RefreshRecurringTransactions

SpecRouter == InitRouter /\ [][NextRouter]_vars

(***************************************************************************)
(* The pages over the store: who is signed in, the reads that loadUserData *)
(* makes through the request wrapper, page loads and sign-out.  A read     *)
(* that waits for the network is [method, url, seen]: seen is the version  *)
(* of the data that the server read for it.  live and saved are histories  *)
(* of the store alone and are not kept here.                               *)
(***************************************************************************)
Users == {"u1", "u2"}
UrlAccounts == BaseUrl \o "/accounts"
UrlSummary == BaseUrl \o "/financial-summary"
PageUrls == {UrlAccounts, UrlSummary}
PageRequests ==
  { [method |-> "GET", url |-> u, seen |-> v] : u \in PageUrls, v \in 0..MaxWrites }
NoPageRequests == [req \in PageRequests |-> 0]
\* the data of a user at version v of the server
Data(who, v) == who \o ":v" \o ToString(v)
\* what the server answers to a read of who
PageResponse(req, who, outcome) ==
  IF outcome = "ok"
    THEN [ok |-> TRUE, status |-> 200, statusText |-> "OK", data |-> Data(who, req.seen)]
    ELSE ServerResponse(req, outcome)

\* a page starts: new DataCache() over the same localStorage; the requests
\* and the handler of the page before are gone
NewPage ==
  /\ \E S \in {loadFromStorage([cache |-> EmptyMap, ts |-> EmptyMap,
                                 ls |-> localStorage], now, "ok")} : Becomes(S)
  /\ pending' = NoPageRequests
  /\ flow' = NoFlow
  /\ net' = Idle
  /\ UNCHANGED <<now, live, saved, failures, server>>

InitSession ==
  /\ cache = EmptyMap
  /\ cacheTimestamps = EmptyMap
  /\ localStorage = NoStorage
  /\ now = 0
  /\ lastOp = Op("new", NoKey, absent, {}, FALSE)
  /\ live = NoHistory
  /\ saved = NoHistory
  /\ failures = 0
  /\ pending = NoPageRequests
  /\ net = Idle
  /\ user = NoUser
  /\ flow = NoFlow
  /\ server = 0

\* signIn and the redirect to the page of the signed-in user
SignIn(who) ==
  /\ user = NoUser
  /\ user' = who
  /\ lastOp' = Op("signIn", who, absent, {}, FALSE)
  /\ NewPage

\* initializePage finds no account (the session has ended) and redirects to
\* /index.html
NotAuthenticated ==
  /\ user # NoUser
  /\ user' = NoUser
  /\ lastOp' = Op("redirect", NoKey, absent, {}, FALSE)
  /\ NewPage

\* the page is loaded again
Restart ==
  /\ lastOp' = Op("load", NoKey, absent, {}, FALSE)
  /\ UNCHANGED user
  /\ NewPage

\* handleSignOut; the redirect that ends it leaves the page
SignOut(fail) ==
  /\ user # NoUser
  /\ Fails(fail)
  /\ \E S \in {handleSignOut(Store, fail)} : Becomes(S)
  /\ lastOp' = Op("handleSignOut", user, absent, MapKeys(cache), clearRaises(fail))
  /\ IF clearRaises(fail)
       THEN UNCHANGED <<user, pending, flow>>
       ELSE user' = NoUser /\ pending' = NoPageRequests /\ flow' = NoFlow
  /\ net' = Idle
  /\ UNCHANGED <<now, live, saved, server>>

PageInFlight == Sum(pending, PageRequests)

\* loadUserAccounts or loadFinancialSummary, up to the first await of
\* makeAuthenticatedRequest
LoadData(url) ==
  LET cacheKey == CacheKey("GET", url)
      req == [method |-> "GET", url |-> url, seen |-> server]
  IN \E r \in {requestStart(Store, "GET", url, now)} :
     /\ user # NoUser
     /\ Becomes(r.S)
     /\ lastOp' = Op("request", cacheKey, absent, MapKeys(cache) \ MapKeys(r.S.cache), FALSE)
     /\ IF r.hit
          THEN /\ net' = [calls |-> {}, response |-> r.response]
               /\ UNCHANGED pending
          ELSE /\ PageInFlight < MaxPending
               /\ net' = [calls |-> {"getToken", "fetch"}, response |-> NoResponse]
               /\ pending' = [pending EXCEPT ![req] = @ + 1]
     /\ UNCHANGED <<now, live, saved, failures>>
     /\ SamePage

\* the network answers a waiting read and makeAuthenticatedRequest runs to its
\* end
LoadDataRespond(req, outcome) ==
  LET response == PageResponse(req, user, outcome)
  IN \E S \in {requestEnd(Store, req.method, req.url, response, outcome, now, "ok")} :
     /\ pending[req] > 0
     /\ pending' = [pending EXCEPT ![req] = @ - 1]
     /\ Becomes(S)
     /\ lastOp' = Op("response", CacheKey(req.method, req.url), absent,
                     MapKeys(cache) \ MapKeys(S.cache), outcome = "throws")
     /\ net' = [calls |-> {}, response |-> response]
     /\ UNCHANGED <<now, live, saved, failures>>
     /\ SamePage

NextSession ==
  \/ \E who \in Users : SignIn(who)
  \/ NotAuthenticated
  \/ Restart
  \/ \E fail \in SaveOutcomes : SignOut(fail)
  \/ \E url \in PageUrls : LoadData(url)
  \/ \E req \in PageRequests, outcome \in FetchOutcomes : LoadDataRespond(req, outcome)

SpecSession == InitSession /\ [][NextSession]_vars

(***************************************************************************)
(* The handlers of the pages that write: each sends its write through the  *)
(* request wrapper, and after an ok response calls the invalidation router *)
(* and loads the data again.  The reads of loadUserData (page start,       *)
(* visibilitychange) run beside them.  Every save succeeds.                *)
(***************************************************************************)
\* create-account and add-transaction submit handlers, deleteTransaction,
\* deleteAccount
Mutations ==
  {"createAccount", "createTransaction", "deleteTransaction", "deleteAccount"}
Writes == Mutations \cup {"deleteRecurringTransaction"}
\* the answers of the server to a write: ok with a JSON body, not ok, or fetch
\* throws
WriteOutcomes == {"ok", "notOk", "throws"}
\* the account of the transaction that is deleted
AccountOfWrite == "a1"
AllOk(n) == [i \in 1..n |-> "ok"]

\* the invalidation calls of the handler after an ok response
invalidateAfter(S, kind) ==
  CASE kind = "createAccount" -> invalidateUserData(S, AllOk(4))
    [] kind = "createTransaction" ->
         invalidateUserData(invalidateTransactionData(S, AllOk(3)), AllOk(4))
    [] kind = "deleteTransaction" ->
         invalidateAccountData(
           invalidateUserData(invalidateTransactionData(S, AllOk(3)), AllOk(4)),
           AccountOfWrite, AllOk(3))
    [] kind = "deleteAccount" -> invalidateUserData(S, AllOk(4))
    \* window.cacheInvalidation.invalidateRecurringTransactions is not a
    \* function: the first call of the block raises and the others do not run
    [] kind = "deleteRecurringTransaction" -> S
invalidateAfterRaises(kind) ==
  kind = "deleteRecurringTransaction"
    /\ "invalidateRecurringTransactions" \notin cacheInvalidation

InitPages ==
  /\ cache = EmptyMap
  /\ cacheTimestamps = EmptyMap
  /\ localStorage = NoStorage
  /\ now = 0
  /\ lastOp = Op("new", NoKey, absent, {}, FALSE)
  /\ live = NoHistory
  /\ saved = NoHistory
  /\ failures = 0
  /\ pending = NoPageRequests
  /\ net = Idle
  /\ user = "u1"
  /\ flow = NoFlow
  /\ server = 0

\* what a step of a handler leaves alone
HandlerFrame == UNCHANGED <<now, live, saved, failures, user>>

\* the lookup of a reload: a hit returns the cached response, a miss sends
\* the read, which then waits for the network like any other
Reload(S, url, waiting) ==
  LET r == requestStart(S, "GET", url, now)
      req == [method |-> "GET", url |-> url, seen |-> server]
  IN [S |-> r.S,
      result |-> IF r.hit THEN MapGet(S.cache, CacheKey("GET", url)) ELSE absent,
      response |-> r.response,
      pending |-> IF r.hit THEN waiting ELSE [waiting EXCEPT ![req] = @ + 1]]

\* the handler starts: makeAuthenticatedRequest for a write does no lookup, and
\* waits for the network
Submit(kind) ==
  /\ flow.pc = "idle"
  /\ server < MaxWrites
  /\ flow' = [kind |-> kind, pc |-> "write", invalidated |-> FALSE, seen |-> 0]
  /\ lastOp' = Op(kind, "submit", absent, {}, FALSE)
  /\ net' = [calls |-> {"getToken", "fetch"}, response |-> NoResponse]
  /\ UNCHANGED <<cache, cacheTimestamps, localStorage, pending, server>>
  /\ HandlerFrame

\* the answer to the write arrives.  Not ok or a throw: the handler shows a
\* message and returns.  Ok: the server has applied the write; the
\* add-transaction handler invalidates and then awaits response.json(), the
\* others await response.json() first; deleteRecurringTransaction counts the
\* deletion and runs its invalidation block at once
WriteResponse(outcome) ==
  LET kind == flow.kind
      now_ == kind \in {"createTransaction", "deleteRecurringTransaction"}
  IN /\ flow.pc = "write"
     /\ lastOp' = Op(kind, outcome, absent,
                     IF outcome = "ok" /\ now_
                       THEN MapKeys(cache) \ MapKeys(invalidateAfter(Store, kind).cache)
                       ELSE {},
                     outcome = "ok" /\ invalidateAfterRaises(kind))
     /\ net' = [calls |-> {}, response |-> NoResponse]
     /\ UNCHANGED pending
     /\ HandlerFrame
     /\ IF outcome # "ok"
          THEN /\ flow' = [flow EXCEPT !.pc = "idle"]
               /\ UNCHANGED <<cache, cacheTimestamps, localStorage, server>>
          ELSE /\ server' = server + 1
               /\ IF now_
                    THEN /\ \E S \in {invalidateAfter(Store, kind)} : Becomes(S)
                         /\ flow' = [flow EXCEPT
                                       !.pc = IF kind = "createTransaction"
                                                THEN "json" ELSE "idle",
                                       !.invalidated = ~invalidateAfterRaises(kind)]
                    ELSE /\ flow' = [flow EXCEPT !.pc = "json"]
                         /\ UNCHANGED <<cache, cacheTimestamps, localStorage>>

\* the handler resumes after await response.json(): the invalidation calls of
\* the handlers that have not made them yet, then the reload, up to its first
\* await: loadUserData of add-transaction and deleteAccount, loadUserAccounts
\* of deleteTransaction; create-account reloads nothing
AfterJson ==
  LET kind == flow.kind
      S1 == IF kind = "createTransaction" THEN Store ELSE invalidateAfter(Store, kind)
      none == [S |-> S1, result |-> absent, response |-> NoResponse, pending |-> pending]
      first == CASE kind = "createAccount" -> none
                 [] kind = "deleteAccount" -> Reload(S1, UrlSummary, pending)
                 [] OTHER -> Reload(S1, UrlAccounts, pending)
      second == IF kind = "deleteAccount"
                  THEN Reload(first.S, UrlAccounts, first.pending)
                  ELSE first
      mine == kind = "deleteTransaction" /\ first.result = absent
  IN /\ flow.pc = "json"
     /\ Sum(second.pending, PageRequests) <= MaxPending
     /\ Becomes(second.S)
     /\ lastOp' = Op(kind, "json",
                     IF first.result # absent THEN first.result ELSE second.result,
                     MapKeys(cache) \ MapKeys(S1.cache), FALSE)
     /\ net' = [calls |-> IF second.pending = pending THEN {} ELSE {"getToken", "fetch"},
                response |-> IF first.result # absent THEN first.response
                             ELSE second.response]
     \* deleteTransaction awaits its own read; the reads of the others are
     \* left to arrive as the handler does nothing with the store after them
     /\ pending' = IF mine THEN pending ELSE second.pending
     /\ flow' = [flow EXCEPT !.pc = IF mine THEN "reloadAccounts" ELSE "idle",
                             !.invalidated = TRUE,
                             !.seen = server]
     /\ UNCHANGED server
     /\ HandlerFrame

\* deleteTransaction: the account list arrives, the wrapper stores it, and the
\* handler goes on to loadFinancialSummary, up to its first await
ReloadRespond(outcome) ==
  LET req == [method |-> "GET", url |-> UrlAccounts, seen |-> flow.seen]
      response == PageResponse(req, user, outcome)
      S1 == requestEnd(Store, "GET", UrlAccounts, response, outcome, now, "ok")
      next == Reload(S1, UrlSummary, pending)
  IN /\ flow.pc = "reloadAccounts"
     /\ Sum(next.pending, PageRequests) <= MaxPending
     /\ Becomes(next.S)
     /\ lastOp' = Op(flow.kind, "reloaded", next.result, {}, FALSE)
     /\ net' = [calls |-> IF next.pending = pending THEN {} ELSE {"getToken", "fetch"},
                response |-> next.response]
     /\ pending' = next.pending
     /\ flow' = [flow EXCEPT !.pc = "idle"]
     /\ UNCHANGED server
     /\ HandlerFrame

NextPages ==
  \/ \E kind \in Writes : Submit(kind)
  \/ \E outcome \in WriteOutcomes : WriteResponse(outcome)
  \/ AfterJson
  \/ \E outcome \in FetchOutcomes : ReloadRespond(outcome)
  \/ \E url \in PageUrls : LoadData(url)
  \/ \E req \in PageRequests, outcome \in FetchOutcomes : LoadDataRespond(req, outcome)

SpecPages == InitPages /\ [][NextPages]_vars

(***************************************************************************)
(* Properties.                                                             *)
(***************************************************************************)
\* s contains p, stated without the program's includes
IsSubstring(s, p) ==
  \E i \in 1..(Len(s) + 1) : \E j \in (i - 1)..Len(s) : SubSeq(s, i, j) = p

\* the entry of key is the same before and after the step
SameEntry(key) ==
  /\ MapHas(cache', key) /\ MapGet(cache', key) = MapGet(cache, key)
  /\ MapHas(cacheTimestamps', key) = MapHas(cacheTimestamps, key)
  /\ MapHas(cacheTimestamps, key)
       => MapGet(cacheTimestamps', key) = MapGet(cacheTimestamps, key)

\* C1: the number of entries in the store never exceeds maxCacheSize
C1_Capacity == MapSize(cache) <= maxCacheSize

C3_TTLBoundary ==
  (lastOp.op = "get" /\ live[lastOp.key] # absent) =>
    IF now <= live[lastOp.key].setExpiry
      THEN lastOp.result.body = live[lastOp.key].body
      ELSE lastOp.result = absent /\ ~MapHas(cache, lastOp.key)
\* a get after t0 + T removed the key
C3_Witness ==
  /\ lastOp.op = "get"
  /\ live[lastOp.key] # absent
  /\ now > live[lastOp.key].setExpiry
  /\ lastOp.removed = {lastOp.key}

\* C4: get never returns a response later than the expiresAt computed by the
\* set that stored it
C4_Freshness ==
  (lastOp.op = "get" /\ lastOp.result # absent) => now <= lastOp.result.setExpiry

\* C5: invalidate(p) removes every entry whose key contains p and leaves every
\* other entry as it was
C5_InvalidatePrecision ==
  [][lastOp'.op = "invalidate" =>
       \A k \in MapKeys(cache) :
         IF IsSubstring(k, lastOp'.key)
           THEN ~MapHas(cache', k) /\ ~MapHas(cacheTimestamps', k)
           ELSE SameEntry(k)]_vars
\* an invalidate removed some entries and left others
C5_Witness ==
  /\ lastOp.op = "invalidate"
  /\ lastOp.removed # {}
  /\ cache # EmptyMap

\* C6: after invalidateUserData no key of the store contains /api/accounts,
\* /api/financial-summary, /api/transactions or /api/analytics, and a store of
\* exactly the account list, the financial summary, the recent transactions
\* and the monthly summary is left empty
C6_UserData ==
  [][lastOp'.op = "invalidateUserData" =>
       /\ \A k \in MapKeys(cache') :
            /\ ~IsSubstring(k, "/api/accounts")
            /\ ~IsSubstring(k, "/api/financial-summary")
            /\ ~IsSubstring(k, "/api/transactions")
            /\ ~IsSubstring(k, "/api/analytics")
       /\ MapKeys(cache) = {KeyAccounts, KeySummary, KeyRecent, KeyMonthly}
            => cache' = EmptyMap]_vars
\* invalidateUserData emptied the store of those four entries
C6_Witness ==
  /\ lastOp.op = "invalidateUserData"
  /\ lastOp.removed = {KeyAccounts, KeySummary, KeyRecent, KeyMonthly}
  /\ cache = EmptyMap

\* C7: invalidateAccountData(id) removes the summary of account id, the
\* account list and the financial summary, and leaves every entry whose key
\* contains /api/transactions or /api/analytics as it was
C7_AccountData ==
  [][lastOp'.op = "invalidateAccountData" =>
       /\ ~MapHas(cache', KeyAccountSummary(lastOp'.key))
       /\ ~MapHas(cache', KeyAccounts)
       /\ ~MapHas(cache', KeySummary)
       /\ \A k \in MapKeys(cache) :
            (IsSubstring(k, "/api/transactions") \/ IsSubstring(k, "/api/analytics"))
              => SameEntry(k)]_vars
\* invalidateAccountData removed the three and kept transaction and analytics
\* reads
C7_Witness ==
  /\ lastOp.op = "invalidateAccountData"
  /\ {KeyAccountSummary(lastOp.key), KeyAccounts, KeySummary} \subseteq lastOp.removed
  /\ {KeyRecent, KeyMonthly} \subseteq MapKeys(cache)

\* C8: invalidateTransactionData removes every entry whose key contains
\* /api/transactions, /api/financial-summary or /api/analytics, and leaves the
\* account list and every account summary as they were
C8_TransactionData ==
  [][lastOp'.op = "invalidateTransactionData" =>
       /\ \A k \in MapKeys(cache') :
            /\ ~IsSubstring(k, "/api/transactions")
            /\ ~IsSubstring(k, "/api/financial-summary")
            /\ ~IsSubstring(k, "/api/analytics")
       /\ \A k \in MapKeys(cache) \cap
                     ({KeyAccounts} \cup { KeyAccountSummary(id) : id \in AccountIds }) :
            SameEntry(k)]_vars
\* invalidateTransactionData removed reads and kept the account reads
C8_Witness ==
  /\ lastOp.op = "invalidateTransactionData"
  /\ {KeyRecent, KeySummary, KeyMonthly} \subseteq lastOp.removed
  /\ {KeyAccounts, KeyAccountSummary("a1")} \subseteq MapKeys(cache)

\* C9: the router's invalidateRecurringTransactions, as the pages call it,
\* returns without raising and leaves no recurring-transaction read, no
\* transaction read, no financial summary, no analytics read and no account
\* list in the store
C9_Recurring ==
  lastOp.op = "invalidateRecurringTransactions" =>
    /\ ~lastOp.raised
    /\ \A k \in MapKeys(cache) :
         /\ ~IsSubstring(k, "/api/recurring-transactions")
         /\ ~IsSubstring(k, "/api/transactions")
         /\ ~IsSubstring(k, "/api/financial-summary")
         /\ ~IsSubstring(k, "/api/analytics")
         /\ k # KeyAccounts

\* C10: after a page load that could read localStorage, a key stored by a set
\* whose save succeeded (and not set again or removed since) is returned by
\* get if the load is not later than its expiresAt, and is not in the store if
\* the load is later
C10_RoundTrip ==
  (lastOp.op = "load" /\ lastOp.key # "unreadable") =>
    \A k \in AllKeys :
      saved[k] # absent =>
        IF now <= saved[k].setExpiry
          THEN get(Store, k, now).result = saved[k]
          ELSE ~MapHas(cache, k) /\ get(Store, k, now).result = absent
\* a load kept one saved entry and pruned another
C10_Witness ==
  /\ lastOp.op = "load"
  /\ lastOp.key # "unreadable"
  /\ \E k \in AllKeys : saved[k] # absent /\ now <= saved[k].setExpiry
  /\ \E k \in AllKeys : saved[k] # absent /\ now > saved[k].setExpiry

\* what a page load would find in the durable slots now
Reloaded ==
  loadFromStorage([cache |-> EmptyMap, ts |-> EmptyMap, ls |-> localStorage], now, "ok")

\* C11: after a clear that returned, the store has size 0, neither durable slot
\* exists, and a store loaded from durable storage is empty
C11_ClearCompleteness ==
  (lastOp.op = "clear" /\ ~lastOp.raised) =>
    /\ getStats(Store).size = 0
    /\ cacheTimestamps = EmptyMap
    /\ ~hasItem(localStorage, storageKey)
    /\ ~hasItem(localStorage, timestampsKey)
    /\ Reloaded.cache = EmptyMap
    /\ Reloaded.ts = EmptyMap
\* a clear emptied a store that had entries, every save before it having
\* succeeded
C11_Witness ==
  /\ lastOp.op = "clear"
  /\ ~lastOp.raised
  /\ lastOp.removed # {}
  /\ localStorage = NoStorage
  /\ failures = 0

\* the durable slot of that name is missing or does not parse
SlotUnusable(name) ==
  \/ ~hasItem(localStorage, name)
  \/ ~WellFormed(localStorage[name])

\* C12: a load that finds either durable slot missing, unreadable or
\* unparseable does not raise and leaves both maps of the store empty
C12_LoadRecovery ==
  lastOp.op = "load" =>
    /\ ~lastOp.raised
    /\ (\/ lastOp.key = "unreadable"
        \/ SlotUnusable(storageKey)
        \/ SlotUnusable(timestampsKey))
         => cache = EmptyMap /\ cacheTimestamps = EmptyMap

\* C14: load, get, set, invalidate and clear return to their caller without
\* raising, also when a durable-storage call they make fails
C14_NoRaise ==
  lastOp.op \in {"load", "get", "set", "invalidate", "clear"} => ~lastOp.raised

\* both durable slots exist and hold the two maps of the store
Persisted ==
  /\ hasItem(localStorage, storageKey)
  /\ hasItem(localStorage, timestampsKey)
  /\ WellFormed(localStorage[storageKey])
  /\ WellFormed(localStorage[timestampsKey])
  /\ parse(localStorage[storageKey]) = cache
  /\ parse(localStorage[timestampsKey]) = cacheTimestamps

\* C13: a set or invalidate does not raise and leaves the maps as the same
\* call with a successful save leaves them, whether its save failed or not
\* (failures counts the saves that failed), and after a save that succeeds the
\* durable slots hold the maps of the store
C13_WriteFailure ==
  [][/\ lastOp'.op = "set" =>
          /\ ~lastOp'.raised
          /\ \E ttl \in TTLs :
               LET ok == set(Store, lastOp'.key, MapGet(cache', lastOp'.key),
                             ttl, now, "ok")
               IN /\ MapGet(cache', lastOp'.key).setExpiry = now + actualTTL(lastOp'.key, ttl)
                  /\ cache' = ok.cache
                  /\ cacheTimestamps' = ok.ts
          /\ failures' = failures => Persisted'
     /\ lastOp'.op = "invalidate" =>
          LET ok == invalidate(Store, lastOp'.key, "ok")
          IN /\ ~lastOp'.raised
             /\ cache' = ok.cache
             /\ cacheTimestamps' = ok.ts
             /\ (failures' = failures /\ lastOp'.removed # {}) => Persisted']_vars
\* a set saved the store, with an entry in it whose own save had failed
C13_Witness ==
  /\ lastOp.op = "set"
  /\ saved[lastOp.key] # absent
  /\ failures > 0
  /\ \E k \in MapKeys(cache) : saved[k] = absent
  /\ Persisted

\* the maps that a durable slot holds, none when the slot does not exist
SlotMap(name) ==
  IF hasItem(localStorage, name) THEN parse(localStorage[name]) ELSE EmptyMap

\* C15: while every storage write succeeds, after a set, an invalidate that
\* removed an entry, a clear, a get that removed an expired entry and a load,
\* the durable slots hold exactly the entries and expiry times of the store
C15_Synchronised ==
  (/\ failures = 0
   /\ \/ lastOp.op \in {"set", "clear", "load"}
      \/ lastOp.op \in {"invalidate", "get"} /\ lastOp.removed # {})
    => /\ SlotMap(storageKey) = cache
       /\ SlotMap(timestampsKey) = cacheTimestamps

\* C16: the two durable slots have the same keys, and the two maps of the
\* store have the same keys
C16_Paired ==
  /\ MapKeys(SlotMap(storageKey)) = MapKeys(SlotMap(timestampsKey))
  /\ MapKeys(cache) = MapKeys(cacheTimestamps)

\* the duration the route table declares for key: that of the first pattern,
\* in declaration order, that is a substring of key, and 5 minutes when none is
PolicyTTL(key) ==
  LET hits == { i \in 1..Len(cacheConfig) : IsSubstring(key, cacheConfig[i][1]) }
  IN IF hits = {} THEN 5 * Minute
     ELSE cacheConfig[CHOOSE i \in hits : \A j \in hits : i <= j][2]
Policy == [k \in AllKeys |-> PolicyTTL(k)]

\* C17: set without a ttl stores now + D as the expiry of the key, D being the
\* duration of the first pattern of the route table that the key contains, and
\* 5 minutes when it contains none
C17_TTLPolicy ==
  \* the entries of the store were set without ttl at time 0
  /\ \A k \in MapKeys(cache) : MapGet(cacheTimestamps, k) = Policy[k]
  \* and so is any key set now
  /\ \A k \in RouterKeys :
       LET S == set(Store, k, [body |-> BodyOf(k), setExpiry |-> now + Policy[k]],
                    null, now, "ok")
       IN MapGet(S.ts, k) = now + Policy[k]
\* the store holds a key that two patterns match with the duration of the
\* first, and a key that no pattern matches with the default
C17_Witness ==
  /\ MapHas(cacheTimestamps, KeyAccountSummary("a1"))
  /\ MapGet(cacheTimestamps, KeyAccountSummary("a1")) = 10 * Minute
  /\ MapHas(cacheTimestamps, KeyRecurring)
  /\ MapGet(cacheTimestamps, KeyRecurring) = 5 * Minute

\* C18: set(k, v, T) with a supplied T >= 0, T = 0 included, stores now + T as
\* the expiry of k
C18_ExplicitTTL ==
  [][lastOp'.op = "set" =>
       \A ttl \in TTLs \ {null}, fail \in SaveOutcomes :
         Set(lastOp'.key, ttl, fail) =>
           MapGet(cacheTimestamps', lastOp'.key) = now + ttl]_vars

\* C19: set of a key that the store holds replaces the value and the expiry of
\* that key, removes nothing, and leaves the number of entries and every other
\* entry as they were, also when the store is full
C19_Overwrite ==
  [][(lastOp'.op = "set" /\ MapHas(cache, lastOp'.key)) =>
       /\ lastOp'.removed = {}
       /\ MapKeys(cache') = MapKeys(cache)
       /\ MapSize(cache') = MapSize(cache)
       /\ MapKeys(cacheTimestamps') = MapKeys(cacheTimestamps)
       /\ MapGet(cache', lastOp'.key) =
            [body |-> BodyOf(lastOp'.key), setExpiry |-> now + EvictTTL]
       /\ MapGet(cacheTimestamps', lastOp'.key) = now + EvictTTL
       /\ \A k \in MapKeys(cache) \ {lastOp'.key} : SameEntry(k)]_vars
\* a set replaced an entry of a full store that held an expired entry: the key
\* set is not the last of the map, where a new key would be, and it is not the
\* expired one
C19_Witness ==
  /\ lastOp.op = "set"
  /\ MapSize(cache) >= maxCacheSize
  /\ MapIndex(cache, lastOp.key) < MapSize(cache)
  /\ MapGet(cacheTimestamps, lastOp.key) = now + EvictTTL
  /\ \E k \in MapKeys(cacheTimestamps) : MapGet(cacheTimestamps, k) < now

\* C20: a GET request whose key has a live entry returns the ok, status,
\* statusText and body of that entry without acquiring a token and without a
\* network call, and leaves the store and the durable slots as they were
C20_CacheHit ==
  [][(/\ lastOp'.op = "request"
      /\ \E req \in Requests : req.method = "GET" /\ lastOp'.key = CacheKey("GET", req.url)
      /\ MapHas(cache, lastOp'.key)
      /\ MapHas(cacheTimestamps, lastOp'.key)
      /\ now <= MapGet(cacheTimestamps, lastOp'.key))
       => LET entry == MapGet(cache, lastOp'.key)
          IN /\ ~lastOp'.raised
             /\ net'.calls = {}
             /\ pending' = pending
             /\ net'.response.ok = entry.ok
             /\ net'.response.status = entry.status
             /\ net'.response.statusText = entry.statusText
             /\ net'.response.data = entry.body
             /\ entry.body = BodyOf(lastOp'.key)
             /\ cache' = cache
             /\ cacheTimestamps' = cacheTimestamps
             /\ localStorage' = localStorage]_vars
\* a request was answered from the store at the last moment of its entry's
\* life, while another request waited for the network
C20_Witness ==
  /\ lastOp.op = "request"
  /\ net.calls = {}
  /\ net.response.ok
  /\ net.response.data = BodyOf(lastOp.key)
  /\ MapHas(cacheTimestamps, lastOp.key)
  /\ now = MapGet(cacheTimestamps, lastOp.key)
  /\ InFlight > 0

\* the store and the durable slots are the same before and after the step
StoreUnchanged ==
  /\ cache' = cache
  /\ cacheTimestamps' = cacheTimestamps
  /\ localStorage' = localStorage

\* the entry of key is the response that an ok GET of one of the requested
\* URLs returns, under the key made of GET and that URL, query string included
StoredByOkGet(key, entry) ==
  \E req \in Requests :
    /\ req.method = "GET"
    /\ key = "GET_" \o req.url
    /\ entry.ok
    /\ entry.status = 200
    /\ entry.body = ServerResponse(req, "ok").data

C22_NoAccessInFlight ==
  [][/\ \A req \in Requests, tokenOk \in BOOLEAN :
          \* the lookup of a GET is a get
          (Request(req, tokenOk) /\ req.method = "GET") => InFlight = 0
     /\ \A req \in Requests, outcome \in FetchOutcomes :
          \* an ok GET is stored by set once its own call has come back
          (Respond(req, outcome, "ok") /\ req.method = "GET" /\ outcome = "ok")
            => InFlight' = 0
     /\ lastOp'.op = "invalidate" => InFlight = 0]_vars

\* C25: an invalidate whose pattern no stored key contains, a get of a key the
\* store does not hold and a get of a live key write no durable slot and leave
\* the store and both slots as they were; no get changes the expiry of an entry
C25_NoEffect ==
  [][/\ (/\ lastOp'.op = "invalidate"
         /\ \A k \in MapKeys(cache) : ~IsSubstring(k, lastOp'.key))
          => StoreUnchanged /\ failures' = failures
     /\ lastOp'.op = "get" =>
          /\ localStorage' = localStorage
          /\ failures' = failures
          /\ \A k \in MapKeys(cache') : SameEntry(k)
          /\ ~MapHas(cache, lastOp'.key)
               => StoreUnchanged /\ lastOp'.result = absent
          /\ (/\ MapHas(cache, lastOp'.key)
              /\ MapHas(cacheTimestamps, lastOp'.key)
              /\ now <= MapGet(cacheTimestamps, lastOp'.key))
               => StoreUnchanged /\ lastOp'.result = MapGet(cache, lastOp'.key)]_vars
\* an invalidate matched none of the entries of a store whose slots do not
\* hold what the store holds: a save would have changed them
C25_Witness ==
  /\ lastOp.op = "invalidate"
  /\ lastOp.removed = {}
  /\ cache # EmptyMap
  /\ SlotMap(storageKey) # cache

\* C26: an entry whose key contains /api/accounts/summary/ and that was set
\* without ttl expires 5 minutes after it was stored
C26_AccountSummaryTTL ==
  \A id \in AccountIds :
    LET key == KeyAccountSummary(id)
        S == set(Store, key, [body |-> BodyOf(key), setExpiry |-> now + 5 * Minute],
                 null, now, "ok")
    IN /\ IsSubstring(key, "/api/accounts/summary/")
       /\ MapGet(S.ts, key) = now + 5 * Minute
       \* the entries of the store were set without ttl at time 0
       /\ MapHas(cacheTimestamps, key) => MapGet(cacheTimestamps, key) = 5 * Minute

\* C29: invalidateAccountData(a) leaves the summary entry of every other
\* account b in the store as it was
C29_AccountScoped ==
  [][lastOp'.op = "invalidateAccountData" =>
       \A b \in AccountIds \ {lastOp'.key} :
         MapHas(cache, KeyAccountSummary(b)) => SameEntry(KeyAccountSummary(b))]_vars

\* C24: after a handleSignOut that returned, the store is empty, neither
\* durable slot of the cache exists, and a store loaded afterwards is empty
C24_SignOut ==
  (lastOp.op = "handleSignOut" /\ ~lastOp.raised) =>
    /\ cache = EmptyMap
    /\ cacheTimestamps = EmptyMap
    /\ ~hasItem(localStorage, storageKey)
    /\ ~hasItem(localStorage, timestampsKey)
    /\ Reloaded.cache = EmptyMap
    /\ Reloaded.ts = EmptyMap
\* a user whose two reads were in the store signed out
C24_Witness ==
  /\ lastOp.op = "handleSignOut"
  /\ ~lastOp.raised
  /\ lastOp.removed = {KeyAccounts, KeySummary}
  /\ localStorage = NoStorage

\* the response is data of who
DataOf(response, who) == \E v \in 0..MaxWrites : response.data = Data(who, v)

\* C30: a cache hit never gives the signed-in user a response that was
\* fetched and stored while another user was signed in
C30_NoCrossUser ==
  (lastOp.op = "request" /\ net.calls = {} /\ net.response # NoResponse)
    => DataOf(net.response, user)

\* the last step was a lookup of the wrapper that was answered from the cache
CacheHit ==
  /\ \/ lastOp.op = "request"
     \/ lastOp.op \in Writes /\ lastOp.key \in {"json", "reloaded"}
  /\ net.calls = {}
  /\ net.response # NoResponse

\* C23: a write handler (create account, create transaction, delete
\* transaction, delete account) calls the invalidation router exactly when the
\* response of its write is ok: a response that is not ok or a throw leaves
\* the store as it was and the router uncalled; a handler that returns after
\* an ok response has called the router; and the reload it starts after the
\* invalidation gets no cache hit for the account list or the financial summary
C23_MutationThenInvalidation ==
  [][lastOp'.op \in Mutations =>
       /\ lastOp'.key \in {"notOk", "throws"}
            => StoreUnchanged /\ ~flow'.invalidated /\ flow'.pc = "idle"
       /\ (lastOp'.key \in {"ok", "json", "reloaded"} /\ flow'.pc = "idle")
            => flow'.invalidated
       /\ lastOp'.key \in {"json", "reloaded"}
            => flow'.invalidated /\ lastOp'.result = absent]_vars

\* C27: after deleteRecurringTransaction has deleted an occurrence, the
\* invalidation has run, so that no entry of the account list or the financial
\* summary is cached, and the function has not taken its error path
C27_RecurringInvalidates ==
  (lastOp.op = "deleteRecurringTransaction" /\ lastOp.key = "ok")
    => /\ ~lastOp.raised
       /\ flow.invalidated
       /\ ~MapHas(cache, CacheKey("GET", UrlAccounts))
       /\ ~MapHas(cache, CacheKey("GET", UrlSummary))

\* C28: once a write has succeeded and its handler has invalidated, a cache
\* hit never returns a response that the server produced before the write
C28_NoStaleWrite ==
  (CacheHit /\ flow.invalidated) => net.response.data = Data(user, server)

====
